---- MODULE Spec2Model ----
(***************************************************************************)
(* A model of the blackjack round engine of src/game.py: Card, Deck, Hand, *)
(* Player and BlackjackGame.  Every method is an operator over a record g  *)
(* holding the engine's fields; each public method is one action.          *)
(*                                                                         *)
(* random.shuffle may produce any permutation.  The model draws the        *)
(* permutation from a bounded family: riffle the cards 0..MaxRiffle times, *)
(* then take every stride-th card, for a stride in 1..MaxStride coprime to *)
(* the number of cards.  The family is fixed by the bounds below.          *)
(***************************************************************************)
EXTENDS Integers, Sequences, FiniteSets, TLC

\* ------------------------------------------------------------ bounds ----
MaxDecks    == 1   \* num_decks ranges over 1..MaxDecks
MaxRiffle   == 1   \* riffles applied by a shuffle
MaxStride   == 7   \* largest stride of a shuffle
MaxMinBet   == 0   \* min_bet ranges over 0..MaxMinBet
BetSpread   == 1   \* max_bet is min_bet + BetSpread
MaxBankroll == 1   \* the starting bankroll ranges over 0..MaxBankroll
MaxHandLen  == 4   \* the hands whose value is read hold 0..MaxHandLen cards

\* ------------------------------------------------------------- enums ----
GameState   == {"BETTING", "PLAYER_TURN", "DEALER_TURN", "ROUND_OVER", "GAME_OVER"}
RoundResult == {"VICTORY", "LOSS", "TIE", "BLACKJACK", "BUSTED"}
None        == "None"

\* -------------------------------------------------------------- Card ----
Suits == <<"Hearts", "Diamonds", "Clubs", "Spades">>
Ranks == <<"2", "3", "4", "5", "6", "7", "8", "9", "10", "J", "Q", "K", "A">>

\* A Card is the number, 1 .. 52, of its (suit, rank) pair in the order in
\* which Deck._build_deck creates the cards of one deck.
NumCards == Len(Suits) * Len(Ranks)
Card(suit, rank) == (suit - 1) * Len(Ranks) + rank
SuitOf(card) == Suits[((card - 1) \div Len(Ranks)) + 1]
RankOf(card) == Ranks[((card - 1) % Len(Ranks)) + 1]

\* int(self.rank) for the ranks that are numerals
IntOfRank(rank) ==
    CASE rank = "2" -> 2 [] rank = "3" -> 3 [] rank = "4" -> 4
      [] rank = "5" -> 5 [] rank = "6" -> 6 [] rank = "7" -> 7
      [] rank = "8" -> 8 [] rank = "9" -> 9 [] rank = "10" -> 10

\* Card.value
CardValue(card) ==
    IF RankOf(card) \in {"J", "Q", "K"} THEN 10
    ELSE IF RankOf(card) = "A" THEN 11
    ELSE IntOfRank(RankOf(card))

\* suit[0], the first character of the suit's name
SuitInitial(suit) ==
    CASE suit = "Hearts" -> "H" [] suit = "Diamonds" -> "D"
      [] suit = "Clubs" -> "C" [] suit = "Spades" -> "S"

\* Card.__str__
CardStr(card) == RankOf(card) \o SuitInitial(SuitOf(card))

\* -------------------------------------------------------------- Deck ----
\* Deck._build_deck: num_decks times, every suit, every rank, in this order
build_deck(num_decks) ==
    [i \in 1 .. (NumCards * num_decks) |->
        Card((((i - 1) \div Len(Ranks)) % Len(Suits)) + 1,
             ((i - 1) % Len(Ranks)) + 1)]

RECURSIVE GCD(_, _)
GCD(a, b) == IF b = 0 THEN a ELSE GCD(b, a % b)

\* the position, in a sequence of n cards, of the card that one perfect
\* riffle (the two halves interleaved) brings to position j
Riffle(n, j) ==
    LET h == n \div 2
    IN  IF j > 2 * h THEN j
        ELSE IF j % 2 = 1 THEN (j + 1) \div 2 ELSE h + (j \div 2)

\* the same for riffles riffles in a row
RECURSIVE RiffleN(_, _, _)
RiffleN(n, riffles, j) ==
    IF riffles = 0 THEN j ELSE Riffle(n, RiffleN(n, riffles - 1, j))

\* the position of the card that reading every k-th card, k coprime to n,
\* brings to position j
Stride(n, k, j) == (((j - 1) * k) % n) + 1

\* the outcomes of the random source that the model enumerates
ShuffleChoices(n) ==
    [riffles : 0 .. MaxRiffle,
     stride  : {k \in 1 .. MaxStride : GCD(k, n) = 1}]

\* Deck.shuffle: random.shuffle(self.cards), with outcome sh: the cards
\* riffled sh.riffles times and then read with stride sh.stride.  (c is the
\* value of cards, bound once for all positions.)
shuffle(cards, sh) ==
    IF cards = <<>> THEN cards
    ELSE LET Permute(c) ==
                 [j \in 1 .. Len(c) |->
                     c[RiffleN(Len(c), sh.riffles, Stride(Len(c), sh.stride, j))]]
         IN  CHOOSE s \in {Permute(c) : c \in {cards}} : TRUE

\* Deck.draw without the rebuild of an empty shoe
draw_NoRebuild(g, sh) ==
    IF g.deck = <<>>
    THEN [g |-> [g EXCEPT !.raised = TRUE], card |-> 0]
    ELSE [g    |-> [g EXCEPT !.deck = SubSeq(g.deck, 1, Len(g.deck) - 1)],
          card |-> g.deck[Len(g.deck)]]

\* Deck.draw: rebuild and reshuffle an empty shoe, then pop the last card.
\* list.pop() on a list that is still empty raises IndexError.
draw(g, sh) ==
    LET cards == IF g.deck = <<>>
                 THEN shuffle(build_deck(g.num_decks), sh)
                 ELSE g.deck
    IN  IF cards = <<>>
        THEN [g |-> [g EXCEPT !.raised = TRUE], card |-> 0]
        ELSE [g    |-> [g EXCEPT !.deck = SubSeq(cards, 1, Len(cards) - 1)],
              card |-> cards[Len(cards)]]

\* -------------------------------------------------------------- Hand ----
RECURSIVE SumValues(_)
SumValues(cards) ==
    IF cards = <<>> THEN 0 ELSE CardValue(Head(cards)) + SumValues(Tail(cards))

CountAces(cards) == Cardinality({i \in 1 .. Len(cards) : RankOf(cards[i]) = "A"})

\* Hand.value softening one Ace at most
Soften_Once(value, aces) ==
    IF value > 21 /\ aces > 0 THEN value - 10 ELSE value

\* the while loop of Hand.value
RECURSIVE Soften(_, _)
Soften(value, aces) ==
    IF value > 21 /\ aces > 0 THEN Soften(value - 10, aces - 1) ELSE value

\* Hand.value
HandValue(cards) == Soften(SumValues(cards), CountAces(cards))

\* Hand.is_blackjack
is_blackjack(cards) == Len(cards) = 2 /\ HandValue(cards) = 21

\* Hand.is_busted
is_busted(cards) == HandValue(cards) > 21

\* Hand.__init__ and the result of Hand.clear
EmptyHand == [cards |-> <<>>, bet |-> 0]

\* Hand.clear
clear(hand) == [hand EXCEPT !.cards = <<>>, !.bet = 0]

\* Hand.__str__: the cards' strings joined by one space
RECURSIVE HandStr(_)
HandStr(cards) ==
    IF cards = <<>> THEN ""
    ELSE IF Len(cards) = 1 THEN CardStr(cards[1])
    ELSE CardStr(cards[1]) \o " " \o HandStr(Tail(cards))

\* ------------------------------------------------------------ Player ----
\* Player.place_bet recording the bet before it checks the bankroll
Player_place_bet_EarlyBet(g, amount) ==
    IF amount <= g.bankroll
    THEN [g EXCEPT !.player_hand.bet = amount,
                   !.bankroll = @ - amount,
                   !.ret = "True"]
    ELSE [g EXCEPT !.player_hand.bet = amount, !.ret = "False"]

\* Player.place_bet without the check of the bankroll
Player_place_bet_NoCheck(g, amount) ==
    [g EXCEPT !.player_hand.bet = amount,
              !.bankroll = @ - amount,
              !.ret = "True"]

\* Player.place_bet
Player_place_bet(g, amount) ==
    IF amount <= g.bankroll
    THEN [g EXCEPT !.player_hand.bet = amount,
                   !.bankroll = @ - amount,
                   !.ret = "True"]
    ELSE [g EXCEPT !.ret = "False"]

\* Player.reset_hand
reset_hand(g) == [g EXCEPT !.player_hand = clear(@)]

\* ----------------------------------------------------- BlackjackGame ----
\* self.player.hand.add_card(self.deck.draw())
deal_player(g, sh) ==
    IF g.raised THEN g
    ELSE LET d == draw(g, sh)
         IN  IF d.g.raised THEN d.g
             ELSE [d.g EXCEPT !.player_hand.cards = Append(@, d.card)]

\* the dealer's draw with the card drawn not added to the hand
deal_dealer_Drop(g, sh) ==
    IF g.raised THEN g ELSE draw(g, sh).g

\* self.dealer_hand.add_card(self.deck.draw())
deal_dealer(g, sh) ==
    IF g.raised THEN g
    ELSE LET d == draw(g, sh)
         IN  IF d.g.raised THEN d.g
             ELSE [d.g EXCEPT !.dealer_hand.cards = Append(@, d.card)]

\* int(bet * 2.5): the product truncated toward zero
IntTimes2_5(bet) ==
    IF bet >= 0 THEN (bet * 5) \div 2 ELSE 0 - (((0 - bet) * 5) \div 2)

\* _handle_blackjack without the test of the dealer's hand: a dealer whose
\* first card is worth 10 or more always ties
handle_blackjack_NoDealerCheck(g) ==
    IF g.dealer_hand.cards = <<>> THEN [g EXCEPT !.raised = TRUE]
    ELSE
    LET paid ==
          IF CardValue(g.dealer_hand.cards[1]) >= 10
          THEN [g EXCEPT !.round_result = "TIE",
                         !.bankroll = @ + g.player_hand.bet]
          ELSE [g EXCEPT !.round_result = "BLACKJACK",
                         !.bankroll = @ + IntTimes2_5(g.player_hand.bet)]
    IN  [paid EXCEPT !.game_state = "ROUND_OVER"]

\* BlackjackGame._handle_blackjack
handle_blackjack(g) ==
    IF g.dealer_hand.cards = <<>> THEN [g EXCEPT !.raised = TRUE]
    ELSE
    LET paid ==
          IF CardValue(g.dealer_hand.cards[1]) >= 10
          THEN IF Len(g.dealer_hand.cards) = 2 /\ HandValue(g.dealer_hand.cards) = 21
               THEN [g EXCEPT !.round_result = "TIE",
                              !.bankroll = @ + g.player_hand.bet]
               ELSE [g EXCEPT !.round_result = "BLACKJACK",
                              !.bankroll = @ + IntTimes2_5(g.player_hand.bet)]
          ELSE [g EXCEPT !.round_result = "BLACKJACK",
                         !.bankroll = @ + IntTimes2_5(g.player_hand.bet)]
    IN  [paid EXCEPT !.game_state = "ROUND_OVER"]

\* _start_round dealing to the dealer first
start_round_DealerFirst(g, sh) ==
    LET g0 == [reset_hand(g) EXCEPT !.dealer_hand = clear(@)]
        g1 == deal_dealer(g0, sh)
        g2 == deal_player(g1, sh)
        g3 == deal_dealer(g2, sh)
        g4 == deal_player(g3, sh)
    IN  IF g4.raised THEN g4
        ELSE LET g5 == [g4 EXCEPT !.game_state = "PLAYER_TURN"]
             IN  IF is_blackjack(g5.player_hand.cards)
                 THEN handle_blackjack(g5)
                 ELSE g5

\* _start_round without the test for a natural
start_round_NoNatural(g, sh) ==
    LET g0 == [reset_hand(g) EXCEPT !.dealer_hand = clear(@)]
        g1 == deal_player(g0, sh)
        g2 == deal_dealer(g1, sh)
        g3 == deal_player(g2, sh)
        g4 == deal_dealer(g3, sh)
    IN  IF g4.raised THEN g4
        ELSE [g4 EXCEPT !.game_state = "PLAYER_TURN"]

\* _start_round without the clearing of the dealer's hand
start_round_KeepDealer(g, sh) ==
    LET g0 == reset_hand(g)
        g1 == deal_player(g0, sh)
        g2 == deal_dealer(g1, sh)
        g3 == deal_player(g2, sh)
        g4 == deal_dealer(g3, sh)
    IN  IF g4.raised THEN g4
        ELSE LET g5 == [g4 EXCEPT !.game_state = "PLAYER_TURN"]
             IN  IF is_blackjack(g5.player_hand.cards)
                 THEN handle_blackjack(g5)
                 ELSE g5

\* BlackjackGame._start_round
start_round(g, sh) ==
    LET g0 == [reset_hand(g) EXCEPT !.dealer_hand = clear(@)]
        g1 == deal_player(g0, sh)
        g2 == deal_dealer(g1, sh)
        g3 == deal_player(g2, sh)
        g4 == deal_dealer(g3, sh)
    IN  IF g4.raised THEN g4
        ELSE LET g5 == [g4 EXCEPT !.game_state = "PLAYER_TURN"]
             IN  IF is_blackjack(g5.player_hand.cards)
                 THEN handle_blackjack(g5)
                 ELSE g5

\* BlackjackGame.place_bet
place_bet(g, amount, sh) ==
    IF g.game_state # "BETTING" THEN [g EXCEPT !.ret = "False"]
    ELSE IF amount < g.min_bet \/ amount > g.max_bet THEN [g EXCEPT !.ret = "False"]
    ELSE LET p == Player_place_bet(g, amount)
         IN  IF p.ret = "True"
             THEN LET r == start_round([p EXCEPT !.ret = g.ret], sh)
                  IN  IF r.raised THEN r ELSE [r EXCEPT !.ret = "True"]
             ELSE [p EXCEPT !.ret = "False"]

\* hit ending the round at 21 already
hit_BustAt21(g, sh) ==
    IF g.game_state # "PLAYER_TURN" THEN [g EXCEPT !.ret = "False"]
    ELSE LET g1 == deal_player(g, sh)
         IN  IF g1.raised THEN g1
             ELSE IF HandValue(g1.player_hand.cards) >= 21
                  THEN [g1 EXCEPT !.round_result = "BUSTED",
                                  !.game_state = "ROUND_OVER",
                                  !.ret = "True"]
                  ELSE [g1 EXCEPT !.ret = "True"]

\* BlackjackGame.hit
hit(g, sh) ==
    IF g.game_state # "PLAYER_TURN" THEN [g EXCEPT !.ret = "False"]
    ELSE LET g1 == deal_player(g, sh)
         IN  IF g1.raised THEN g1
             ELSE IF is_busted(g1.player_hand.cards)
                  THEN [g1 EXCEPT !.round_result = "BUSTED",
                                  !.game_state = "ROUND_OVER",
                                  !.ret = "True"]
                  ELSE [g1 EXCEPT !.ret = "True"]

\* _determine_round_result with equal values won by the player
determine_round_result_TieWins(g) ==
    LET player_value == HandValue(g.player_hand.cards)
        dealer_value == HandValue(g.dealer_hand.cards)
        settled ==
          IF is_busted(g.player_hand.cards)
          THEN [g EXCEPT !.round_result = "BUSTED"]
          ELSE IF is_busted(g.dealer_hand.cards)
          THEN [g EXCEPT !.round_result = "VICTORY",
                         !.bankroll = @ + g.player_hand.bet * 2]
          ELSE IF player_value >= dealer_value
          THEN [g EXCEPT !.round_result = "VICTORY",
                         !.bankroll = @ + g.player_hand.bet * 2]
          ELSE [g EXCEPT !.round_result = "LOSS"]
    IN  [settled EXCEPT !.game_state = "ROUND_OVER"]

\* BlackjackGame._determine_round_result
determine_round_result(g) ==
    LET player_value == HandValue(g.player_hand.cards)
        dealer_value == HandValue(g.dealer_hand.cards)
        settled ==
          IF is_busted(g.player_hand.cards)
          THEN [g EXCEPT !.round_result = "BUSTED"]
          ELSE IF is_busted(g.dealer_hand.cards)
          THEN [g EXCEPT !.round_result = "VICTORY",
                         !.bankroll = @ + g.player_hand.bet * 2]
          ELSE IF player_value > dealer_value
          THEN [g EXCEPT !.round_result = "VICTORY",
                         !.bankroll = @ + g.player_hand.bet * 2]
          ELSE IF player_value < dealer_value
          THEN [g EXCEPT !.round_result = "LOSS"]
          ELSE [g EXCEPT !.round_result = "TIE",
                         !.bankroll = @ + g.player_hand.bet]
    IN  [settled EXCEPT !.game_state = "ROUND_OVER"]

\* the dealer's loop drawing on 17 as well
RECURSIVE dealer_draws_HitOn17(_, _)
dealer_draws_HitOn17(g, sh) ==
    IF g.raised THEN g
    ELSE IF HandValue(g.dealer_hand.cards) <= 17
         THEN dealer_draws_HitOn17(deal_dealer(g, sh), sh)
         ELSE g

\* the while loop of BlackjackGame._dealer_play
RECURSIVE dealer_draws(_, _)
dealer_draws(g, sh) ==
    IF g.raised THEN g
    ELSE IF HandValue(g.dealer_hand.cards) < 17
         THEN dealer_draws(deal_dealer(g, sh), sh)
         ELSE g

\* _dealer_play returning after the loop, without the settlement
dealer_play_NoSettle(g, sh) ==
    dealer_draws([g EXCEPT !.game_state = "DEALER_TURN"], sh)

\* BlackjackGame._dealer_play
dealer_play(g, sh) ==
    LET g1 == dealer_draws([g EXCEPT !.game_state = "DEALER_TURN"], sh)
    IN  IF g1.raised THEN g1 ELSE determine_round_result(g1)

\* stand without the test of the state
stand_NoGuard(g, sh) ==
    LET g1 == dealer_play(g, sh)
    IN  IF g1.raised THEN g1 ELSE [g1 EXCEPT !.ret = "True"]

\* BlackjackGame.stand
stand(g, sh) ==
    IF g.game_state # "PLAYER_TURN" THEN [g EXCEPT !.ret = "False"]
    ELSE LET g1 == dealer_play(g, sh)
         IN  IF g1.raised THEN g1 ELSE [g1 EXCEPT !.ret = "True"]

\* start_new_round without the test of the state
start_new_round_NoGuard(g) ==
    [g EXCEPT !.game_state = "BETTING", !.round_result = None, !.ret = None]

\* start_new_round leaving the result of the round in place
start_new_round_KeepResult(g) ==
    IF g.game_state # "ROUND_OVER" THEN [g EXCEPT !.ret = None]
    ELSE [g EXCEPT !.game_state = "BETTING", !.ret = None]

\* BlackjackGame.start_new_round
start_new_round(g) ==
    IF g.game_state # "ROUND_OVER" THEN [g EXCEPT !.ret = None]
    ELSE [g EXCEPT !.game_state = "BETTING", !.round_result = None, !.ret = None]

\* get_game_info showing the dealer's last card as the up-card
get_game_info_LastCard(g) ==
    [game_state      |-> g.game_state,
     round_result    |-> g.round_result,
     player_bankroll |-> g.bankroll,
     player_hand     |-> HandStr(g.player_hand.cards),
     player_value    |-> HandValue(g.player_hand.cards),
     dealer_hand     |-> HandStr(g.dealer_hand.cards),
     dealer_value    |-> HandValue(g.dealer_hand.cards),
     dealer_up_card  |-> IF g.dealer_hand.cards # <<>>
                         THEN CardStr(g.dealer_hand.cards[Len(g.dealer_hand.cards)])
                         ELSE None,
     can_hit         |-> g.game_state = "PLAYER_TURN"
                         /\ ~is_busted(g.player_hand.cards),
     can_stand       |-> g.game_state = "PLAYER_TURN",
     deck_size       |-> Len(g.deck)]

\* BlackjackGame.get_game_info
get_game_info(g) ==
    [game_state      |-> g.game_state,
     round_result    |-> g.round_result,
     player_bankroll |-> g.bankroll,
     player_hand     |-> HandStr(g.player_hand.cards),
     player_value    |-> HandValue(g.player_hand.cards),
     dealer_hand     |-> HandStr(g.dealer_hand.cards),
     dealer_value    |-> HandValue(g.dealer_hand.cards),
     dealer_up_card  |-> IF g.dealer_hand.cards # <<>>
                         THEN CardStr(g.dealer_hand.cards[1]) ELSE None,
     can_hit         |-> g.game_state = "PLAYER_TURN"
                         /\ ~is_busted(g.player_hand.cards),
     can_stand       |-> g.game_state = "PLAYER_TURN",
     deck_size       |-> Len(g.deck)]

\* ------------------------------------------------------------- state ----
VARIABLES
    deck,          \* Deck.cards; the last element is drawn next
    num_decks,     \* Deck.num_decks
    bankroll,      \* Player.bankroll
    player_hand,   \* Player.hand: [cards, bet]
    dealer_hand,   \* BlackjackGame.dealer_hand: [cards, bet]
    min_bet,       \* BlackjackGame.min_bet
    max_bet,       \* BlackjackGame.max_bet
    game_state,    \* BlackjackGame.game_state
    round_result,  \* BlackjackGame.round_result
    raised,        \* TRUE once a call ended in an exception
    op,            \* the last public method called
    amount,        \* the argument of the last call, 0 when it takes none
    wagered,       \* the amount of the last accepted place_bet
    ret,           \* what the last call returned
    info,          \* the record the last call returned, when it returned one
    main_pc        \* where main() is: in its loop or past it

vars == <<deck, num_decks, bankroll, player_hand, dealer_hand, min_bet, max_bet,
          game_state, round_result, raised, op, amount, wagered, ret, info,
          main_pc>>

\* the engine's fields as one record
Game ==
    [deck |-> deck, num_decks |-> num_decks, bankroll |-> bankroll,
     player_hand |-> player_hand, dealer_hand |-> dealer_hand,
     min_bet |-> min_bet, max_bet |-> max_bet, game_state |-> game_state,
     round_result |-> round_result, raised |-> raised, ret |-> ret]

Install(g) ==
    /\ deck' = g.deck
    /\ num_decks' = g.num_decks
    /\ bankroll' = g.bankroll
    /\ player_hand' = g.player_hand
    /\ dealer_hand' = g.dealer_hand
    /\ min_bet' = g.min_bet
    /\ max_bet' = g.max_bet
    /\ game_state' = g.game_state
    /\ round_result' = g.round_result
    /\ raised' = g.raised
    /\ ret' = g.ret

\* the value of info after a call that returns no record
NoInfo == [none |-> TRUE]

\* BlackjackGame.__init__, Deck.__init__, Player.__init__
Init ==
    /\ num_decks \in 1 .. MaxDecks
    /\ \E sh \in ShuffleChoices(Len(build_deck(num_decks))) :
           deck = shuffle(build_deck(num_decks), sh)
    /\ bankroll \in 0 .. MaxBankroll
    /\ player_hand = EmptyHand
    /\ dealer_hand = EmptyHand
    /\ min_bet \in 0 .. MaxMinBet
    /\ max_bet = min_bet + BetSpread
    /\ game_state = "BETTING"
    /\ round_result = None
    /\ raised = FALSE
    /\ op = "init"
    /\ amount = 0
    /\ wagered = 0
    /\ ret = None
    /\ info = NoInfo
    /\ main_pc = "loop"

\* the outcomes of the random source for an engine of num_decks decks
Outcomes == ShuffleChoices(Len(build_deck(num_decks)))

\* the outcome of a shuffle that leaves the cards as they are
NoShuffle == [riffles |-> 0, stride |-> 1]

\* A call reads the random source only when Deck.draw rebuilds the shoe, and
\* then the shoe is longer after the call than before it (a call draws far
\* fewer cards than a deck holds).  A call that does not rebuild the shoe has
\* the same result for every outcome, so one outcome stands for all of them.
Consumed(g, r) == Len(r.deck) > Len(g.deck)

\* the amounts offered to place_bet: the ends of the bet range and the
\* amounts just outside it
Amounts == {min_bet - 1, min_bet, max_bet, max_bet + 1}

PlaceBet ==
    /\ ~raised
    /\ \E a \in Amounts :
        \E sh \in IF Consumed(Game, place_bet(Game, a, NoShuffle))
                  THEN Outcomes ELSE {NoShuffle} :
            /\ Install(place_bet(Game, a, sh))
            /\ op' = "place_bet"
            /\ amount' = a
            /\ wagered' = IF ~raised' /\ ret' = "True" THEN a ELSE wagered
            /\ info' = NoInfo
            /\ UNCHANGED main_pc

Hit ==
    /\ ~raised
    /\ \E sh \in IF Consumed(Game, hit(Game, NoShuffle))
                  THEN Outcomes ELSE {NoShuffle} :
        /\ Install(hit(Game, sh))
        /\ op' = "hit"
        /\ UNCHANGED <<wagered, main_pc>>
        /\ amount' = 0
        /\ info' = NoInfo

Stand ==
    /\ ~raised
    /\ \E sh \in IF Consumed(Game, stand(Game, NoShuffle))
                  THEN Outcomes ELSE {NoShuffle} :
        /\ Install(stand(Game, sh))
        /\ op' = "stand"
        /\ UNCHANGED <<wagered, main_pc>>
        /\ amount' = 0
        /\ info' = NoInfo

StartNewRound ==
    /\ ~raised
    /\ Install(start_new_round(Game))
    /\ op' = "start_new_round"
    /\ UNCHANGED <<wagered, main_pc>>
    /\ amount' = 0
    /\ info' = NoInfo

\* a call of get_game_info: it reads the engine and assigns nothing
GetGameInfo ==
    /\ ~raised
    /\ info' = get_game_info(Game)
    /\ op' = "get_game_info"
    /\ ret' = "Info"
    /\ amount' = 0
    /\ UNCHANGED <<deck, num_decks, bankroll, player_hand, dealer_hand, min_bet,
                   max_bet, game_state, round_result, raised, wagered, main_pc>>

Next == PlaceBet \/ Hit \/ Stand \/ StartNewRound

Spec == Init /\ [][Next]_vars

\* the calls of Spec with reads of the snapshot between them
NextInfo == Next \/ GetGameInfo

SpecInfo == Init /\ [][NextInfo]_vars

TypeOK ==
    /\ game_state \in GameState
    /\ round_result \in RoundResult \cup {None}
    /\ bankroll \in Int
    /\ raised \in BOOLEAN

\* -------------------------------------------------------- properties ----
\* the engine's fields, without the record of the last call
engine == <<deck, num_decks, bankroll, player_hand, dealer_hand, min_bet,
            max_bet, game_state, round_result>>

\* C1: a place_bet that returns False leaves the bankroll, the state, the
\* result, both hands and the shoe as they were, and place_bet returns False
\* exactly when the state is not BETTING, or the amount is below min_bet,
\* above max_bet or above the bankroll.
C1_RejectedBetChangesNothing ==
    [][op' = "place_bet" =>
         /\ ret' = "False" <=> \/ game_state # "BETTING"
                               \/ amount' < min_bet
                               \/ amount' > max_bet
                               \/ amount' > bankroll
         /\ ret' = "False" => UNCHANGED engine]_vars

\* a bet inside the range that the bankroll cannot cover was rejected
C1_Witness ==
    /\ op = "place_bet" /\ ret = "False" /\ game_state = "BETTING"
    /\ amount >= min_bet /\ amount <= max_bet /\ amount > bankroll

\* C2: the bankroll is never negative.
C2_BankrollNonNegative == bankroll >= 0

\* a positive bet was accepted that took the whole bankroll
C2_Witness ==
    op = "place_bet" /\ ret = "True" /\ amount > 0 /\ bankroll = 0

\* the cards of s, last first: the order in which Deck.draw hands them out
Reverse(s) == [i \in 1 .. Len(s) |-> s[Len(s) + 1 - i]]

\* s holds every card of n decks, each n times
IsFullShoe(s, n) ==
    /\ Len(s) = NumCards * n
    /\ \A c \in 1 .. NumCards : Cardinality({i \in 1 .. Len(s) : s[i] = c}) = n

\* The cards of drawn were taken, in this order, from the end of the shoe
\* before, and the shoe is after: either all of them come from before, or
\* before ran empty and the rest come from the end of a rebuilt full shoe.
DrawnFrom(before, after, drawn, n) ==
    IF Len(drawn) <= Len(before)
    THEN /\ after = SubSeq(before, 1, Len(before) - Len(drawn))
         /\ drawn = Reverse(SubSeq(before, Len(after) + 1, Len(before)))
    ELSE /\ SubSeq(drawn, 1, Len(before)) = Reverse(before)
         /\ IsFullShoe(after \o Reverse(SubSeq(drawn, Len(before) + 1, Len(drawn))), n)

\* C3 (as claimed): a natural that ends in BLACKJACK leaves the bankroll at
\* the bankroll before the call minus the amount plus floor(amount * 2.5),
\* and a natural that ends in TIE leaves the bankroll as it was before.
C3_NaturalPayout ==
    [][(op' = "place_bet" /\ ret' = "True") =>
         /\ round_result' = "BLACKJACK" =>
                bankroll' = bankroll - amount' + ((5 * amount') \div 2)
         /\ round_result' = "TIE" => bankroll' = bankroll]_vars

\* C4 (as claimed): stand credits twice the accepted amount on VICTORY, the
\* accepted amount on TIE and nothing on LOSS.
C4_StandPayout ==
    [][(op' = "stand" /\ ret' = "True") =>
         bankroll' = bankroll + (CASE round_result' = "VICTORY" -> 2 * wagered
                                   [] round_result' = "TIE" -> wagered
                                   [] OTHER -> 0)]_vars

\* C5: an accepted place_bet that does not deal the player a natural returns
\* in PLAYER_TURN with no result, the bankroll reduced by the amount, and two
\* cards in each hand, all four of them drawn from the shoe by this call.
C5_AcceptedBetDealsFreshRound ==
    [][(op' = "place_bet" /\ ret' = "True" /\ ~is_blackjack(player_hand'.cards)) =>
         /\ game_state = "BETTING"
         /\ game_state' = "PLAYER_TURN"
         /\ round_result' = None
         /\ bankroll' = bankroll - amount'
         /\ Len(player_hand'.cards) = 2
         /\ Len(dealer_hand'.cards) = 2
         /\ DrawnFrom(deck, deck',
                      <<player_hand'.cards[1], dealer_hand'.cards[1],
                        player_hand'.cards[2], dealer_hand'.cards[2]>>,
                      num_decks)]_vars

\* a positive bet was accepted in a second or later round (the shoe has
\* given out more than the four cards of this deal) without a natural
C5_Witness ==
    /\ op = "place_bet" /\ ret = "True" /\ game_state = "PLAYER_TURN"
    /\ amount > 0
    /\ Len(deck) + 4 < NumCards * num_decks

\* C6: after an accepted stand the state is ROUND_OVER and the result is
\* VICTORY when the dealer's value is above 21 or below the player's, LOSS
\* when it is at most 21 and above the player's, TIE when the values are equal.
C6_StandResult ==
    (op = "stand" /\ ret = "True") =>
        /\ game_state = "ROUND_OVER"
        /\ round_result =
             (LET pv == HandValue(player_hand.cards)
                  dv == HandValue(dealer_hand.cards)
              IN  IF dv > 21 THEN "VICTORY"
                  ELSE IF pv > dv THEN "VICTORY"
                  ELSE IF pv < dv THEN "LOSS"
                  ELSE "TIE")

\* the player stood and the values were equal
C6_Witness ==
    /\ op = "stand" /\ ret = "True"
    /\ HandValue(player_hand.cards) = HandValue(dealer_hand.cards)

\* C7: a place_bet that deals the player a natural returns in ROUND_OVER
\* having drawn four cards, two in each hand; the result is TIE when the
\* dealer's two cards are worth 21 and BLACKJACK otherwise, and a dealer's
\* hand worth 21 starts with a card of value 10 or more.
C7_NaturalEndsRound ==
    [][(op' = "place_bet" /\ ret' = "True" /\ is_blackjack(player_hand'.cards)) =>
         /\ game_state' = "ROUND_OVER"
         /\ Len(player_hand'.cards) = 2
         /\ Len(dealer_hand'.cards) = 2
         /\ DrawnFrom(deck, deck',
                      <<player_hand'.cards[1], dealer_hand'.cards[1],
                        player_hand'.cards[2], dealer_hand'.cards[2]>>,
                      num_decks)
         /\ round_result' = IF HandValue(dealer_hand'.cards) = 21
                            THEN "TIE" ELSE "BLACKJACK"
         /\ HandValue(dealer_hand'.cards) = 21 =>
                CardValue(dealer_hand'.cards[1]) >= 10]_vars

\* the player was dealt a natural against a dealer whose first card is worth
\* 10 or more and whose hand is not worth 21
C7_Witness ==
    /\ op = "place_bet" /\ ret = "True" /\ is_blackjack(player_hand.cards)
    /\ CardValue(dealer_hand.cards[1]) >= 10
    /\ HandValue(dealer_hand.cards) # 21

\* C8: a hit in PLAYER_TURN returns True, appends to the player's hand the
\* one card it draws from the shoe, and leaves the dealer's hand, the bet and
\* the bankroll alone; a value above 21 gives BUSTED and ROUND_OVER, any
\* other value leaves PLAYER_TURN and no result.
C8_Hit ==
    [][(op' = "hit" /\ (ret' = "True" \/ game_state = "PLAYER_TURN")) =>
         /\ ret' = "True"
         /\ game_state = "PLAYER_TURN"
         /\ Len(player_hand'.cards) = Len(player_hand.cards) + 1
         /\ SubSeq(player_hand'.cards, 1, Len(player_hand.cards)) = player_hand.cards
         /\ player_hand'.bet = player_hand.bet
         /\ DrawnFrom(deck, deck',
                      <<player_hand'.cards[Len(player_hand'.cards)]>>, num_decks)
         /\ dealer_hand' = dealer_hand
         /\ bankroll' = bankroll
         /\ IF HandValue(player_hand'.cards) > 21
            THEN round_result' = "BUSTED" /\ game_state' = "ROUND_OVER"
            ELSE round_result' = None /\ game_state' = "PLAYER_TURN"]_vars

\* a hit brought the player to exactly 21 and the turn goes on
C8_Witness ==
    /\ op = "hit" /\ ret = "True" /\ game_state = "PLAYER_TURN"
    /\ HandValue(player_hand.cards) = 21

C10_DealerPolicy ==
    [][(op' = "stand" /\ ret' = "True") =>
         /\ HandValue(dealer_hand'.cards) >= 17
         /\ Len(dealer_hand'.cards) >= Len(dealer_hand.cards)
         /\ SubSeq(dealer_hand'.cards, 1, Len(dealer_hand.cards)) = dealer_hand.cards
         /\ \A k \in Len(dealer_hand.cards) .. (Len(dealer_hand'.cards) - 1) :
                HandValue(SubSeq(dealer_hand'.cards, 1, k)) < 17
         /\ player_hand' = player_hand]_vars

\* the dealer stood on the soft 17 of the deal and drew nothing
C10_Witness ==
    /\ op = "stand" /\ ret = "True"
    /\ Len(dealer_hand.cards) = 2
    /\ HandValue(dealer_hand.cards) = 17
    /\ \E i \in 1 .. 2 : RankOf(dealer_hand.cards[i]) = "A"

\* C11: start_new_round in ROUND_OVER sets the state to BETTING and the
\* result to None and leaves the bankroll, both hands and the shoe alone; in
\* any other state it changes no field of the engine.
C11_StartNewRound ==
    [][op' = "start_new_round" =>
         IF game_state = "ROUND_OVER"
         THEN /\ game_state' = "BETTING"
              /\ round_result' = None
              /\ UNCHANGED <<deck, num_decks, bankroll, player_hand, dealer_hand,
                             min_bet, max_bet>>
         ELSE UNCHANGED engine]_vars

\* start_new_round reset a finished round and the hands still hold its cards
C11_Witness ==
    /\ op = "start_new_round" /\ game_state = "BETTING"
    /\ Len(player_hand.cards) >= 2 /\ Len(dealer_hand.cards) >= 2

\* C12: the result is set exactly in ROUND_OVER, where it is one of the five
\* results; it is None in every other state.
C12_ResultIffRoundOver ==
    /\ (round_result # None) <=> (game_state = "ROUND_OVER")
    /\ game_state = "ROUND_OVER" => round_result \in RoundResult
    /\ game_state \in {"BETTING", "PLAYER_TURN"} => round_result = None

\* a new round is being bet on after a round that was lost
C12_Witness ==
    /\ game_state = "BETTING" /\ round_result = None
    /\ op = "start_new_round" /\ dealer_hand.cards # <<>>
    /\ HandValue(dealer_hand.cards) <= 21
    /\ HandValue(player_hand.cards) < HandValue(dealer_hand.cards)

\* C13: no call raises and the shoe holds 0 .. 52 * num_decks cards; in every
\* reachable state Deck.draw succeeds (for every outcome of the shuffle when
\* it shuffles): from a shoe with cards it removes the
\* last card and nothing else, from an empty shoe it leaves
\* 52 * num_decks - 1 cards that with the card drawn make up a full shoe.
C13_DrawNeverFails ==
    /\ ~raised
    /\ Len(deck) \in 0 .. (52 * num_decks)
    /\ \A sh \in IF deck = <<>> THEN Outcomes ELSE {NoShuffle} :
         LET d == draw(Game, sh)
         IN  /\ ~d.g.raised
             /\ IF deck # <<>>
                THEN /\ Len(d.g.deck) = Len(deck) - 1
                     /\ d.g.deck = SubSeq(deck, 1, Len(deck) - 1)
                     /\ d.card = deck[Len(deck)]
                ELSE /\ Len(d.g.deck) = 52 * num_decks - 1
                     /\ IsFullShoe(Append(d.g.deck, d.card), num_decks)

\* a hit met an empty shoe and was served from the rebuilt one
C13_Witness ==
    /\ op = "hit" /\ ret = "True"
    /\ Len(deck) = 52 * num_decks - 1

\* ---------------------------------------------- Hand.value on its own ----
\* A Hand built card by card with Hand.add_card, whose properties value,
\* is_blackjack and is_busted are read.

\* The cards added: every rank, in one suit (Card.value reads the rank only);
\* a hand may hold a card more than once, as with a shoe of several decks.
HandCards == {Card(1, rank) : rank \in 1 .. Len(Ranks)}

\* Hand.add_card
add_card(hand, card) == [hand EXCEPT !.cards = Append(@, card)]

\* Hand(): an empty hand; the engine around it is not used
InitHand ==
    /\ player_hand = EmptyHand
    /\ dealer_hand = EmptyHand
    /\ deck = <<>>
    /\ num_decks = 1
    /\ bankroll = 0
    /\ min_bet = 0
    /\ max_bet = 0
    /\ game_state = "BETTING"
    /\ round_result = None
    /\ raised = FALSE
    /\ op = "init"
    /\ amount = 0
    /\ wagered = 0
    /\ ret = None
    /\ info = NoInfo
    /\ main_pc = "loop"

AddCard ==
    /\ Len(player_hand.cards) < MaxHandLen
    /\ \E card \in HandCards :
         /\ player_hand' = add_card(player_hand, card)
         /\ amount' = card
    /\ op' = "add_card"
    /\ ret' = None
    /\ info' = NoInfo
    /\ UNCHANGED <<deck, num_decks, bankroll, dealer_hand, min_bet, max_bet,
                   game_state, round_result, raised, wagered, main_pc>>

\* a read of the three properties of the hand
ReadValue ==
    /\ info' = [value        |-> HandValue(player_hand.cards),
                is_blackjack |-> is_blackjack(player_hand.cards),
                is_busted    |-> is_busted(player_hand.cards)]
    /\ op' = "value"
    /\ ret' = "Info"
    /\ amount' = 0
    /\ UNCHANGED <<deck, num_decks, bankroll, player_hand, dealer_hand, min_bet,
                   max_bet, game_state, round_result, raised, wagered, main_pc>>

NextHand == AddCard \/ ReadValue

SpecHand == InitHand /\ [][NextHand]_vars

\* the total of cards when the Ace at position i counts as count[i], 1 or 11
RECURSIVE TotalWith(_, _, _)
TotalWith(cards, count, i) ==
    IF i > Len(cards) THEN 0
    ELSE (IF RankOf(cards[i]) = "A" THEN count[i] ELSE CardValue(cards[i]))
         + TotalWith(cards, count, i + 1)

\* the totals of cards over every way of counting each Ace as 1 or 11
Totals(cards) ==
    LET aces == {i \in 1 .. Len(cards) : RankOf(cards[i]) = "A"}
    IN  {TotalWith(cards, count, 1) : count \in [aces -> {1, 11}]}

\* the largest number of a non-empty set of integers, and the smallest
Max(S) == CHOOSE x \in S : \A y \in S : y <= x
Min(S) == CHOOSE x \in S : \A y \in S : x <= y

\* C14: the value read from a hand is the largest total of at most 21 over
\* the ways of counting each Ace as 1 or 11 when there is one, and otherwise
\* the smallest total, all Aces counted 1, which is at least 22; is_busted
\* is read true exactly when no way of counting gives 21 or less.
C14_BestTotal ==
    op = "value" =>
        LET all  == Totals(player_hand.cards)
            good == {t \in all : t <= 21}
        IN  /\ info.value = (IF good # {} THEN Max(good) ELSE Min(all))
            /\ good = {} => info.value >= 22
            /\ info.is_busted <=> good = {}

\* the value read is at most 21 only because two Aces count 1
C14_Witness ==
    /\ op = "value" /\ info.value <= 21
    /\ SumValues(player_hand.cards) - info.value = 20

\* C15: get_game_info changes no field of the engine; can_stand is true
\* exactly in PLAYER_TURN, can_hit exactly in PLAYER_TURN with a player's
\* value of at most 21, dealer_up_card is the string of the dealer's first
\* card, None without one, and deck_size is the size of the shoe.
C15_GameInfo ==
    [][op' = "get_game_info" =>
         /\ UNCHANGED engine
         /\ info'.can_stand = (game_state = "PLAYER_TURN")
         /\ info'.can_hit = (game_state = "PLAYER_TURN"
                             /\ HandValue(player_hand.cards) <= 21)
         /\ info'.dealer_up_card =
              (IF Len(dealer_hand.cards) = 0 THEN None
               ELSE RankOf(Head(dealer_hand.cards))
                    \o SuitInitial(SuitOf(Head(dealer_hand.cards))))
         /\ info'.deck_size = Len(deck)]_vars

\* the snapshot was taken in the player's turn after the dealer's hand grew
\* no further than the deal
C15_Witness ==
    /\ op = "get_game_info" /\ info.can_hit /\ info.can_stand
    /\ info.dealer_up_card # None
    /\ info.dealer_up_card # CardStr(dealer_hand.cards[Len(dealer_hand.cards)])

\* C16: an accepted place_bet draws four cards from the end of the shoe; the
\* player holds the 1st and 3rd, the dealer the 2nd and 4th, and the up-card
\* is the 2nd.  When the shoe runs empty in the deal, the cards left in it are
\* drawn first and the others come from the end of the reshuffled full shoe.
C16_DealOrder ==
    [][(op' = "place_bet" /\ ret' = "True") =>
         /\ Len(player_hand'.cards) = 2
         /\ Len(dealer_hand'.cards) = 2
         /\ DrawnFrom(deck, deck',
                      <<player_hand'.cards[1], dealer_hand'.cards[1],
                        player_hand'.cards[2], dealer_hand'.cards[2]>>,
                      num_decks)
         /\ get_game_info([Game EXCEPT !.dealer_hand = dealer_hand']).dealer_up_card
              = CardStr(dealer_hand'.cards[1])]_vars

\* the shoe ran empty after the first, second or third card of the deal
C16_Witness ==
    /\ op = "place_bet" /\ ret = "True"
    /\ Len(deck) > 52 * num_decks - 4

\* C17: between calls the state is BETTING, PLAYER_TURN or ROUND_OVER, and
\* it changes only from BETTING to PLAYER_TURN or ROUND_OVER, from
\* PLAYER_TURN to ROUND_OVER and from ROUND_OVER to BETTING.
C17_StatesBetweenCalls ==
    /\ [](game_state \in {"BETTING", "PLAYER_TURN", "ROUND_OVER"})
    /\ [][game_state' # game_state =>
            <<game_state, game_state'>> \in
                {<<"BETTING", "PLAYER_TURN">>, <<"BETTING", "ROUND_OVER">>,
                 <<"PLAYER_TURN", "ROUND_OVER">>, <<"ROUND_OVER", "BETTING">>}]_vars

\* stand returned after the dealer drew, and the round is over
C17_Witness ==
    /\ op = "stand" /\ ret = "True" /\ game_state = "ROUND_OVER"
    /\ Len(dealer_hand.cards) > 2

\* --------------------------------------- the dealer's loop, step by step ----
\* stand() runs _dealer_play to its end before it returns.  Here every pass
\* of its while loop is a step of its own: game_state = "DEALER_TURN" is the
\* position inside the call, where no other operation of the engine can start.
\* The caller is one that, like main, picks the operation by the state: a bet
\* in BETTING, hit or stand in PLAYER_TURN, start_new_round in ROUND_OVER.

\* stand in the player's turn, up to the assignment of DEALER_TURN
StandBegin ==
    /\ ~raised
    /\ game_state = "PLAYER_TURN"
    /\ game_state' = "DEALER_TURN"
    /\ op' = "stand"
    /\ ret' = None
    /\ amount' = 0
    /\ info' = NoInfo
    /\ UNCHANGED <<deck, num_decks, bankroll, player_hand, dealer_hand, min_bet,
                   max_bet, round_result, raised, wagered, main_pc>>

\* one pass of the while loop of _dealer_play
DealerDraw ==
    /\ ~raised
    /\ game_state = "DEALER_TURN"
    /\ HandValue(dealer_hand.cards) < 17
    /\ \E sh \in IF deck = <<>> THEN Outcomes ELSE {NoShuffle} :
         \E g \in {deal_dealer(Game, sh)} : Install(g)
    /\ UNCHANGED <<op, amount, wagered, info, main_pc>>

\* the exit of the while loop, _determine_round_result and the return of stand
DealerSettle ==
    /\ ~raised
    /\ game_state = "DEALER_TURN"
    /\ HandValue(dealer_hand.cards) >= 17
    /\ \E g \in {determine_round_result(Game)} : Install([g EXCEPT !.ret = "True"])
    /\ UNCHANGED <<op, amount, wagered, info, main_pc>>

\* the other operations, each called in the state in which main calls it
BetInBetting == game_state = "BETTING" /\ PlaceBet
HitInTurn == game_state = "PLAYER_TURN" /\ Hit
NewRoundWhenOver == game_state = "ROUND_OVER" /\ StartNewRound

NextLive ==
    \/ BetInBetting \/ HitInTurn \/ NewRoundWhenOver
    \/ StandBegin \/ DealerDraw \/ DealerSettle

\* the engines that can bet nothing, and so play on when the bankroll is spent
InitLive == Init /\ min_bet = 0 /\ bankroll = MaxBankroll

\* A call that has started runs on: the dealer's loop takes its next pass and
\* its exit.  The player, in their turn, keeps calling hit or stand.
SpecLive ==
    /\ InitLive
    /\ [][NextLive]_vars
    /\ WF_vars(DealerSettle \/ DealerDraw)
    /\ WF_vars(StandBegin \/ HitInTurn)

\* the total of cards with every Ace counted 1
HardTotal(cards) == SumValues(cards) - 10 * CountAces(cards)

\* C18: a round that has started ends.  Every card the dealer draws in the
\* loop raises the total of the dealer's hand with Aces counted 1, which is
\* below 17 before the draw, and every accepted hit raises that total of the
\* player's hand, which is at most 21 before the hit; so the draws of a call
\* and the calls of a round are bounded, and from PLAYER_TURN and from inside
\* the dealer's loop the state ROUND_OVER is reached.
C18_RoundEnds ==
    /\ [][/\ (game_state = "DEALER_TURN" /\ dealer_hand' # dealer_hand) =>
                /\ HardTotal(dealer_hand.cards) < 17
                /\ HardTotal(dealer_hand'.cards) > HardTotal(dealer_hand.cards)
          /\ (op' = "hit" /\ ret' = "True") =>
                /\ HardTotal(player_hand.cards) <= 21
                /\ HardTotal(player_hand'.cards) > HardTotal(player_hand.cards)]_vars
    /\ (game_state \in {"PLAYER_TURN", "DEALER_TURN"}) ~> (game_state = "ROUND_OVER")

\* inside the loop the dealer drew a card that left the value of the hand
\* as it was
C18_Witness ==
    /\ game_state = "DEALER_TURN"
    /\ Len(dealer_hand.cards) >= 3
    /\ HandValue(dealer_hand.cards)
         = HandValue(SubSeq(dealer_hand.cards, 1, Len(dealer_hand.cards) - 1))

\* C19: in PLAYER_TURN the player holds at least two cards worth at most 21
\* that are not a natural; the result becomes BUSTED only in hit, and an
\* accepted stand ends in VICTORY, LOSS or TIE.
C19_PlayerTurnHand ==
    /\ [](game_state = "PLAYER_TURN" =>
            /\ Len(player_hand.cards) >= 2
            /\ HandValue(player_hand.cards) <= 21
            /\ ~(Len(player_hand.cards) = 2 /\ HandValue(player_hand.cards) = 21))
    /\ [][/\ (round_result' = "BUSTED" /\ round_result # "BUSTED") => op' = "hit"
          /\ (op' = "stand" /\ ret' = "True") =>
                round_result' \in {"VICTORY", "LOSS", "TIE"}]_vars

\* the player stood on 21 made of three or more cards
C19_Witness ==
    /\ op = "stand" /\ ret = "True"
    /\ Len(player_hand.cards) >= 3
    /\ HandValue(player_hand.cards) = 21

\* -------------------------------------------------------------- main ----
\* main builds one engine and runs its loop; every action below is one pass
\* of the loop, which tests the loop condition, reads get_game_info and
\* takes the branch of the state.  An input that main rejects without a call
\* of the engine (a bet that is no number, an action other than h or s)
\* changes nothing and is left out.

\* while game.player.bankroll > game.min_bet
LoopCondition == bankroll > min_bet

\* the BETTING branch: the bet read is passed to place_bet
MainBet ==
    /\ main_pc = "loop"
    /\ LoopCondition
    /\ get_game_info(Game).game_state = "BETTING"
    /\ PlaceBet

\* the PLAYER_TURN branch: hit or stand as the player says when can_hit,
\* stand otherwise
MainTurn ==
    /\ main_pc = "loop"
    /\ LoopCondition
    /\ get_game_info(Game).game_state = "PLAYER_TURN"
    /\ IF get_game_info(Game).can_hit THEN Hit \/ Stand ELSE Stand

\* the ROUND_OVER branch: start_new_round (the optional save reads the
\* player and writes a file)
MainRoundOver ==
    /\ main_pc = "loop"
    /\ LoopCondition
    /\ get_game_info(Game).game_state = "ROUND_OVER"
    /\ StartNewRound

\* the loop condition fails and main prints its last lines and returns
MainExit ==
    /\ main_pc = "loop"
    /\ ~LoopCondition
    /\ main_pc' = "exited"
    /\ UNCHANGED <<deck, num_decks, bankroll, player_hand, dealer_hand, min_bet,
                   max_bet, game_state, round_result, raised, op, amount,
                   wagered, ret, info>>

NextMain == MainBet \/ MainTurn \/ MainRoundOver \/ MainExit

SpecMain == Init /\ [][NextMain]_vars

\* C20 (as claimed): when the loop of main has ended, the engine is not in
\* PLAYER_TURN: no round whose bet was deducted is left unsettled.
C20_MainEndsBetweenRounds ==
    main_pc = "exited" => game_state # "PLAYER_TURN"

====
